---- MODULE Spec2Model ----
(***************************************************************************)
(* Model of rsz_code/core_rsz/plotting.py: the color-magnitude diagram     *)
(* (cmd), its second-pass decorations (add_vega_labels, add_all_models,    *)
(* add_redshift, add_flags) and the on-sky plot (location).                *)
(*                                                                         *)
(* Units.  Magnitudes, colors, their errors and the AB->Vega offsets are   *)
(* fixed-point integers in millimagnitudes (0.2 mag = 200).  Redshifts of  *)
(* models and colorbar ticks are in tenths (0.1 = 1).  Declinations are in *)
(* degrees; the middle declination is kept doubled (min + max) so that the *)
(* division by 2.0 loses nothing.  Cosines and aspect ratios are in        *)
(* thousandths (1.0 = 1000).                                               *)
(*                                                                         *)
(* A call returns a record [status, exc, ax(, fig)]: status "ok" when the  *)
(* function returned, "raised" when a Python exception left it; ax is the  *)
(* surface as the call left it, whichever way it ended.                    *)
(***************************************************************************)
EXTENDS Integers, Sequences, FiniteSets, TLC

VARIABLES
    cluster,      \* cluster.sources_list, a sequence of Source records
    cfg,          \* the configuration dictionary of the color combination
    ab_to_vega,   \* config.ab_to_vega, a function band -> offset
    ax,           \* the primary matplotlib axes
    twins,        \* the axes made by ax.twinx() / ax.twiny()
    fig,          \* the figure: its colorbars
    pc,           \* "start", or the renderer that was called on ax
    last,         \* the last call: [fn, status, exc, arg]
    nOps          \* number of second-pass calls made so far

vars == <<cluster, cfg, ab_to_vega, ax, twins, fig, pc, last, nOps>>

-----------------------------------------------------------------------------
(* Bounds of the model *)

MaxSources == 2
MaxOps == 2
MaxModels == 2

-----------------------------------------------------------------------------
(* Python values *)

\* A dictionary entry at the key the code looks up: missing, or a value.
\* source.colors[cfg["color"]] is a Color (value, error), source.mags[
\* cfg["red_band"]] a Magnitude (value).
NoEntry == [present |-> FALSE, value |-> 0, error |-> 0]
Entry(v, e) == [present |-> TRUE, value |-> v, error |-> e]

\* source.RS_member at cfg["color"]: the attribute is missing ("Absent"),
\* the dictionary lacks the key ("NoKey"), or the flag is there.
Membership == {"Absent", "NoKey", "True", "False"}

NotSet == [set |-> FALSE, value |-> 0]

nice_red == "#D62728"

ErrorCut == 200

Min(S) == CHOOSE x \in S : \A y \in S : x <= y
Max(S) == CHOOSE x \in S : \A y \in S : x >= y
Abs(x) == IF x < 0 THEN -x ELSE x
Range(s) == {s[i] : i \in 1..Len(s)}

-----------------------------------------------------------------------------
(* Configurations.  cfg["color"], cfg["red_band"], cfg["blue_band"],       *)
(* cfg["plot_lims"] = (x_min, x_max, y_min, y_max).                        *)

Bands == {"ch1", "ch2", "sloan_r", "sloan_z"}

Configs ==
    { [color |-> "ch1-ch2", red_band |-> "ch2", blue_band |-> "ch1",
       plot_lims |-> <<18000, 22000, -1000, 500>>],
      [color |-> "sloan_r-sloan_z", red_band |-> "sloan_z",
       blue_band |-> "sloan_r", plot_lims |-> <<19000, 25000, 0, 2000>>] }

\* str.replace("sloan_", "") on the names the configurations use
StripSloan(name) ==
    CASE name = "sloan_r" -> "r"
      [] name = "sloan_z" -> "z"
      [] name = "sloan_r-sloan_z" -> "r-z"
      [] name = "sloan_r - sloan_z" -> "r - z"
      [] OTHER -> name

\* cluster.name.replace("_", " ") for the cluster "MOO_0001"
cluster_label == "MOO 0001"

-----------------------------------------------------------------------------
(* The surface.  Limits are <<lo, hi>>; data limits start empty.           *)

FreshAx ==
    [ points |-> <<>>,          \* ax.errorbar calls of cmd
      lines |-> <<>>,           \* ax.plot calls of add_one_model
      markers |-> <<>>,         \* ax.scatter calls of add_one_model
      layers |-> <<>>,          \* ax.scatter calls of location
      texts |-> <<>>,           \* ax.text calls
      xlabel |-> <<>>, ylabel |-> <<>>,
      xlim |-> <<0, 1>>, ylim |-> <<0, 1>>,
      autoscale_x |-> TRUE, autoscale_y |-> TRUE,
      xticks |-> "default", yticks |-> "default",
      legend |-> FALSE, useOffset |-> TRUE,
      xinverted |-> FALSE, aspect |-> NotSet,
      shrunk |-> 0 ]

\* Axes.set_xlim(lo, hi): sets the view limits and turns autoscaling off
set_xlim(a, lo, hi) == [a EXCEPT !.xlim = <<lo, hi>>, !.autoscale_x = FALSE]
set_ylim(a, lo, hi) == [a EXCEPT !.ylim = <<lo, hi>>, !.autoscale_y = FALSE]

\* What a plotting call does to the view limits: while autoscaling is on
\* they grow to hold the new data, otherwise they stay as they were set.
Grow(lim, vals, first) ==
    IF vals = {} THEN lim
    ELSE IF first THEN <<Min(vals), Max(vals)>>
    ELSE <<Min(vals \cup {lim[1]}), Max(vals \cup {lim[2]})>>

HasData(a) ==
    \/ a.points # <<>> \/ a.lines # <<>> \/ a.markers # <<>>
    \/ \E i \in 1..Len(a.layers) : a.layers[i].ra # <<>>

Autoscale(a, xs, ys) ==
    [a EXCEPT
       !.xlim = IF a.autoscale_x THEN Grow(a.xlim, xs, ~HasData(a)) ELSE @,
       !.ylim = IF a.autoscale_y THEN Grow(a.ylim, ys, ~HasData(a)) ELSE @]

-----------------------------------------------------------------------------
(* cmd(cluster, ax, cfg) *)

\* source.colors[cfg["color"]] raises KeyError when the key is missing; the
\* "and" short-circuits, so the lookup happens only for near_center sources.
FilterRaises(source) == source.near_center /\ ~source.colors.present

valid_source(source) ==
    /\ source.near_center
    /\ source.colors.present
    /\ source.colors.error < ErrorCut

RECURSIVE SelectSeq2(_, _)
SelectSeq2(s, i) ==
    IF i > Len(s) THEN <<>>
    ELSE (IF valid_source(s[i]) THEN <<s[i]>> ELSE <<>>) \o SelectSeq2(s, i + 1)

\* the list comprehension of lines 33-35
valid_sources(sources_list) ==
    IF \E i \in 1..Len(sources_list) : FilterRaises(sources_list[i])
    THEN [status |-> "raised", exc |-> "KeyError", list |-> <<>>]
    ELSE [status |-> "ok", exc |-> "None", list |-> SelectSeq2(sources_list, 1)]

\* try: source.RS_member[cfg["color"]] ... except KeyError
\* A missing attribute raises AttributeError, which the handler lets through.
point_color(source) ==
    CASE source.RS_member = "Absent" ->
             [status |-> "raised", exc |-> "AttributeError", c |-> ""]
      [] source.RS_member = "NoKey" -> [status |-> "ok", exc |-> "None", c |-> "k"]
      [] source.RS_member = "True" -> [status |-> "ok", exc |-> "None", c |-> nice_red]
      [] OTHER -> [status |-> "ok", exc |-> "None", c |-> "k"]

errorbar(a, x, y, yerr, c) ==
    [Autoscale(a, {x}, {y - yerr, y + yerr}) EXCEPT
       !.points = Append(a.points, [x |-> x, y |-> y, yerr |-> yerr, c |-> c])]

\* the loop of lines 39-54 from index i on
RECURSIVE cmd_loop(_, _, _)
cmd_loop(a, valid, i) ==
    IF i > Len(valid) THEN [status |-> "ok", exc |-> "None", ax |-> a]
    ELSE
      LET source == valid[i] IN
      IF ~source.mags.present
      THEN [status |-> "raised", exc |-> "KeyError", ax |-> a]
      ELSE
        LET col == point_color(source) IN
        IF col.status = "raised"
        THEN [status |-> "raised", exc |-> col.exc, ax |-> a]
        ELSE cmd_loop(errorbar(a, source.mags.value, source.colors.value,
                               source.colors.error, col.c),
                      valid, i + 1)

\* lines 56-63
cmd_decorate(a, c) ==
    LET a1 == set_xlim(a, c.plot_lims[1], c.plot_lims[2])
        a2 == set_ylim(a1, c.plot_lims[3], c.plot_lims[4])
    IN [a2 EXCEPT
          !.xlabel = <<StripSloan(c.red_band), "[AB]">>,
          !.ylabel = <<StripSloan(c.color), "[AB]">>,
          !.texts = Append(@, [at |-> <<3, 97>>, text |-> <<cluster_label>>])]

cmd(sources_list, a, c) ==
    LET v == valid_sources(sources_list) IN
    IF v.status = "raised"
    THEN [status |-> "raised", exc |-> v.exc, ax |-> a]
    ELSE
      LET r == cmd_loop(a, v.list, 1) IN
      IF r.status = "raised" THEN r
      ELSE [status |-> "ok", exc |-> "None", ax |-> cmd_decorate(r.ax, c)]

-----------------------------------------------------------------------------
(* add_vega_labels(ax, cfg) *)

\* ax.twinx() / ax.twiny(): a new axes over the same area
FreshTwin(kind) ==
    [kind |-> kind, lim |-> <<0, 1>>, label |-> <<>>,
     label_position |-> "default", ticks |-> "default", shrunk |-> 0]

\* lines 82-89; each is Vega = AB + factor
vega_x_min(c, table) == c.plot_lims[1] + table[c.blue_band]
vega_x_max(c, table) == c.plot_lims[2] + table[c.red_band]
vega_y_min(c, table) == c.plot_lims[3] + (table[c.blue_band] - table[c.red_band])
\* variant: the upper color limit shifted by the blue offset alone
vega_y_max_blue_only(c, table) == c.plot_lims[4] + table[c.blue_band]

vega_y_max(c, table) == c.plot_lims[4] + (table[c.blue_band] - table[c.red_band])

\* lines 92-108: the two new axes, the mirrored color axis first
vega_axes(c, table) ==
    << [FreshTwin("twinx") EXCEPT
          !.lim = <<vega_y_min(c, table), vega_y_max(c, table)>>,
          !.label = <<StripSloan(c.blue_band), "-", StripSloan(c.red_band), "[Vega]">>,
          !.label_position = "right", !.ticks = "right"],
       [FreshTwin("twiny") EXCEPT
          !.lim = <<vega_x_min(c, table), vega_x_max(c, table)>>,
          !.label = <<StripSloan(c.red_band), "[Vega]">>,
          !.label_position = "top", !.ticks = "top"] >>

\* variant: the Vega limits are set on the primary axes
add_vega_labels_on_primary(a, tw, c, table) ==
    LET a1 == [a EXCEPT !.xticks = "bottom", !.yticks = "left"] IN
    IF c.blue_band \notin DOMAIN table \/ c.red_band \notin DOMAIN table
    THEN [status |-> "raised", exc |-> "KeyError", ax |-> a1, twins |-> tw]
    ELSE [status |-> "ok", exc |-> "None",
          ax |-> set_ylim(set_xlim(a1, vega_x_min(c, table), vega_x_max(c, table)),
                          vega_y_min(c, table), vega_y_max(c, table)),
          twins |-> tw \o <<FreshTwin("twinx"), FreshTwin("twiny")>>]

add_vega_labels(a, tw, c, table) ==
    LET a1 == [a EXCEPT !.xticks = "bottom", !.yticks = "left"] IN
    IF c.blue_band \notin DOMAIN table \/ c.red_band \notin DOMAIN table
    THEN [status |-> "raised", exc |-> "KeyError", ax |-> a1, twins |-> tw]
    ELSE [status |-> "ok", exc |-> "None", ax |-> a1,
          twins |-> tw \o vega_axes(c, table)]

-----------------------------------------------------------------------------
(* add_all_models(fig, ax, steal_axs, cfg, models) and add_one_model *)

\* RSModel.rs_color(mag): the red sequence is a straight line through the
\* anchor point (mag_point, color_point); slope is per 1000 millimag.
rs_color(rs_model, mag) ==
    rs_model.color_point + (rs_model.slope * (mag - rs_model.mag_point)) \div 1000

model_mags == <<10000, 30000>>

\* line 174, the two ends of the line
model_line(rs_model) ==
    [i \in 1..Len(model_mags) |->
        [mag |-> model_mags[i], color |-> rs_color(rs_model, model_mags[i])]]

add_one_model(a, rs_model, color) ==
    LET ln == model_line(rs_model)
        a1 == [Autoscale(a, {ln[i].mag : i \in 1..Len(ln)},
                            {ln[i].color : i \in 1..Len(ln)})
                 EXCEPT !.lines = Append(a.lines, [pts |-> ln, color |-> color])]
    IN [Autoscale(a1, {rs_model.mag_point}, {rs_model.color_point}) EXCEPT
          !.markers = Append(a1.markers,
                             [mag |-> rs_model.mag_point,
                              color |-> rs_model.color_point, c |-> color])]

\* variant: a color scale that starts at redshift 0
c_norm_from_zero(zs) == [vmin |-> 0, vmax |-> Max(Range(zs))]

\* mplcol.Normalize(vmin=min(models), vmax=max(models))
c_norm(zs) == [vmin |-> Min(Range(zs)), vmax |-> Max(Range(zs))]

\* scalar_map.to_rgba(z): the place of z in the normalised range, kept as
\* the fraction <<z - vmin, vmax - vmin>>
to_rgba(norm, z) == <<z - norm.vmin, norm.vmax - norm.vmin>>

\* np.arange(start, stop, step) for start <= stop, step > 0
arange(start, stop, step) ==
    [i \in 1..((stop - start + step - 1) \div step) |-> start + (i - 1) * step]

\* np.arange(0, 3, 0.1) in tenths
colorbar_ticks == arange(0, 30, 1)

\* the loop of lines 144-150 over the redshifts zs from index i on
RECURSIVE models_loop(_, _, _, _, _)
models_loop(a, zs, sub, norm, i) ==
    IF i > Len(zs) THEN a
    ELSE models_loop(add_one_model(a, sub[zs[i]], to_rgba(norm, zs[i])),
                     zs, sub, norm, i + 1)

\* fig.colorbar(mappable, ax=steal_axs, ...): the axes of steal_axs shrink
colorbar(f, norm) ==
    [f EXCEPT !.colorbars =
        Append(@, [vmin |-> norm.vmin, vmax |-> norm.vmax,
                   label |-> "Redshift", ticks |-> colorbar_ticks])]

Shrink(x) == [x EXCEPT !.shrunk = @ + 1]

\* models: the Models collection, color name -> (redshift -> RSModel);
\* order: the redshifts of models[cfg["color"]] in the dictionary's order;
\* steal_twins: whether steal_axs holds the Vega axes besides ax.
add_all_models(f, a, tw, steal_twins, c, models, order) ==
    LET fail(e) == [status |-> "raised", exc |-> e, ax |-> a, twins |-> tw, fig |-> f]
    IN
    IF c.color \notin DOMAIN models THEN fail("KeyError")
    ELSE IF order = <<>> THEN fail("ValueError")
    ELSE
      LET sub == models[c.color]
          norm == c_norm(order)
      IN [status |-> "ok", exc |-> "None",
          ax |-> Shrink(models_loop(a, order, sub, norm, 1)),
          twins |-> IF steal_twins THEN [i \in 1..Len(tw) |-> Shrink(tw[i])] ELSE tw,
          fig |-> colorbar(f, norm)]

-----------------------------------------------------------------------------
(* add_redshift(ax, redshift), add_flags(ax, flags) *)

\* round(x, 2) of a value given in thousandths, result in hundredths
Round2(x) == (x + 5) \div 10

redshift_text(redshift) ==
    IF redshift.type = "AsymmetricData"
    THEN <<"z=", Round2(redshift.value), "+", Round2(redshift.upper_error),
           "-", Round2(redshift.lower_error)>>
    ELSE <<"z=", Round2(redshift.value)>>

add_redshift(a, redshift) ==
    [a EXCEPT !.texts = Append(@, [at |-> <<97, 97>>, text |-> redshift_text(redshift)])]

add_flags(a, flags) ==
    [a EXCEPT !.texts = Append(@, [at |-> <<3, 3>>, text |-> <<"flags: ", flags>>])]

-----------------------------------------------------------------------------
(* location(cluster, ax, color) *)

\* source.RS_member[color] at line 251, outside any try
member_lookup(source) ==
    CASE source.RS_member = "Absent" -> [status |-> "raised", exc |-> "AttributeError"]
      [] source.RS_member = "NoKey" -> [status |-> "raised", exc |-> "KeyError"]
      [] OTHER -> [status |-> "ok", exc |-> "None"]

\* the if / elif / else of lines 251-259
bucket(source) ==
    IF source.RS_member = "True" THEN "rs_member"
    ELSE IF source.near_center THEN "center"
    ELSE "rest"

RECURSIVE bucket_list(_, _, _)
bucket_list(s, name, i) ==
    IF i > Len(s) THEN <<>>
    ELSE (IF bucket(s[i]) = name THEN <<s[i]>> ELSE <<>>) \o bucket_list(s, name, i + 1)

Ras(s) == [i \in 1..Len(s) |-> s[i].ra]
Decs(s) == [i \in 1..Len(s) |-> s[i].dec]

scatter(a, srcs, c, label) ==
    [Autoscale(a, Range(Ras(srcs)), Range(Decs(srcs))) EXCEPT
       !.layers = Append(a.layers, [ra |-> Ras(srcs), dec |-> Decs(srcs),
                                    c |-> c, label |-> label])]

\* variant: the declinations of the two highlighted buckets only
all_decs_highlighted(rs_member, center, rest) == Decs(rs_member) \o Decs(center)

\* line 288
all_decs(rs_member, center, rest) == Decs(rs_member) \o Decs(center) \o Decs(rest)

\* twice the middle declination of line 289
middle_dec2(decs) == Min(Range(decs)) + Max(Range(decs))

\* 1000 * cos(d2 / 2 degrees) for the doubled declinations the model meets
cos_milli(d2) ==
    CASE d2 = 0 -> 1000
      [] d2 = 20 -> 985
      [] d2 = 50 -> 906
      [] d2 = 70 -> 819
      [] d2 = 120 -> 500

\* line 291: 1.0 / np.cos(abs(middle_dec * np.pi / 180.0))
aspect_ratio(d2) == (1000 * 1000) \div cos_milli(Abs(d2))

\* variant: an empty cluster takes the equator as its middle declination
aspect_step_default(drawn, decs) ==
    [status |-> "ok", exc |-> "None",
     ax |-> [drawn EXCEPT !.aspect =
                [set |-> TRUE,
                 value |-> aspect_ratio(IF decs = <<>> THEN 0 ELSE middle_dec2(decs))]]]

\* lines 289-292: min() of an empty list raises ValueError
aspect_step(drawn, decs) ==
    IF decs = <<>>
    THEN [status |-> "raised", exc |-> "ValueError", ax |-> drawn]
    ELSE [status |-> "ok", exc |-> "None",
          ax |-> [drawn EXCEPT !.aspect =
                     [set |-> TRUE, value |-> aspect_ratio(middle_dec2(decs))]]]

\* lines 262-283
location_draw(a, rs_member, center, rest, color) ==
    LET a1 == scatter(a, rest, "0.8", <<>>)
        a2 == scatter(a1, center, "0.2", <<"Location Cut">>)
        a3 == scatter(a2, rs_member, nice_red,
                      <<"Red Sequence", StripSloan(color), "Selected">>)
    IN [a3 EXCEPT
          !.xlabel = <<"Right Ascension">>, !.ylabel = <<"Declination">>,
          !.legend = TRUE, !.useOffset = FALSE,
          !.texts = Append(@, [at |-> <<2, 96>>, text |-> <<cluster_label>>]),
          !.xinverted = ~@]

location(sources_list, a, color) ==
    IF \E i \in 1..Len(sources_list) : member_lookup(sources_list[i]).status = "raised"
    THEN LET i == Min({j \in 1..Len(sources_list) :
                          member_lookup(sources_list[j]).status = "raised"})
         IN [status |-> "raised", exc |-> member_lookup(sources_list[i]).exc, ax |-> a]
    ELSE
      LET rs_member == bucket_list(sources_list, "rs_member", 1)
          center == bucket_list(sources_list, "center", 1)
          rest == bucket_list(sources_list, "rest", 1)
          drawn == location_draw(a, rs_member, center, rest, color)
          decs == all_decs(rs_member, center, rest)
      IN aspect_step(drawn, decs)

-----------------------------------------------------------------------------
(* Inputs *)

\* Sources whose photometry and membership vary: what cmd reads
PhotSources ==
    [ near_center : BOOLEAN,
      colors : {NoEntry, Entry(500, 190), Entry(800, 200), Entry(300, 210)},
      mags : {NoEntry, Entry(20000, 0)},
      RS_member : Membership,
      ra : {150}, dec : {10} ]

\* Sources whose position and membership vary: what location reads
SkySources ==
    [ near_center : BOOLEAN,
      colors : {Entry(500, 190)},
      mags : {Entry(20000, 0)},
      RS_member : Membership,
      ra : {150}, dec : {-10, 10, 60} ]

Clusters(S) == UNION {[1..n -> S] : n \in 0..MaxSources}

\* The clusters the second pass is run on
SrcMember == [near_center |-> TRUE, colors |-> Entry(500, 190),
              mags |-> Entry(20000, 0), RS_member |-> "True", ra |-> 150, dec |-> 10]
SrcField == [near_center |-> TRUE, colors |-> Entry(-200, 100),
             mags |-> Entry(21000, 0), RS_member |-> "NoKey", ra |-> 151, dec |-> 10]
SrcFar == [near_center |-> FALSE, colors |-> Entry(900, 100),
           mags |-> Entry(19000, 0), RS_member |-> "True", ra |-> 152, dec |-> 11]

OverlayClusters == {<<>>, <<SrcMember>>, <<SrcField, SrcFar, SrcMember>>}

DefaultOffsets ==
    [b \in Bands |-> CASE b = "ch1" -> -2788 [] b = "ch2" -> -3255
                       [] b = "sloan_r" -> -160 [] b = "sloan_z" -> -540]

OffsetTables ==
    { DefaultOffsets,
      [b \in Bands |-> CASE b = "ch1" -> 100 [] b = "ch2" -> -100
                         [] b = "sloan_r" -> 0 [] b = "sloan_z" -> 250],
      [b \in {"ch1", "sloan_r"} |-> DefaultOffsets[b]] }

Redshifts == {1, 5, 9}

\* the RSModel of redshift z (tenths)
ModelAt(z) == [z |-> z, mag_point |-> 20000 + 100 * z,
               color_point |-> 100 * z - 200, slope |-> -40]

\* the redshifts of a sub-collection in the dictionary's order
Orders ==
    {o \in UNION {[1..n -> Redshifts] : n \in 0..MaxModels} :
        \A i, j \in 1..Len(o) : i # j => o[i] # o[j]}

ModelsOf(key, order) == [k \in {key} |-> [z \in Range(order) |-> ModelAt(z)]]

RedshiftInputs ==
    { [type |-> "float", value |-> 1234, upper_error |-> 0, lower_error |-> 0],
      [type |-> "AsymmetricData", value |-> 1234, upper_error |-> 50,
       lower_error |-> 30] }

-----------------------------------------------------------------------------
(* The state machine *)

\* the record of a call; arg: the redshifts handed to add_all_models
Call(fn, status, exc, arg) == [fn |-> fn, status |-> status, exc |-> exc, arg |-> arg]

Start ==
    /\ ax = FreshAx
    /\ twins = <<>>
    /\ fig = [colorbars |-> <<>>]
    /\ pc = "start"
    /\ last = Call("none", "ok", "None", <<>>)
    /\ nOps = 0

Init ==
    /\ cluster \in Clusters(PhotSources) \cup Clusters(SkySources)
    /\ cfg \in Configs
    /\ ab_to_vega = DefaultOffsets
    /\ Start

InitOverlay ==
    /\ cluster \in OverlayClusters
    /\ cfg \in Configs
    /\ ab_to_vega \in OffsetTables
    /\ Start

Cmd ==
    /\ pc = "start"
    /\ LET r == cmd(cluster, ax, cfg) IN
         /\ ax' = r.ax
         /\ last' = Call("cmd", r.status, r.exc, <<>>)
    /\ pc' = "cmd"
    /\ UNCHANGED <<cluster, cfg, ab_to_vega, twins, fig, nOps>>

Location ==
    /\ pc = "start"
    /\ LET r == location(cluster, ax, cfg.color) IN
         /\ ax' = r.ax
         /\ last' = Call("location", r.status, r.exc, <<>>)
    /\ pc' = "location"
    /\ UNCHANGED <<cluster, cfg, ab_to_vega, twins, fig, nOps>>

\* cmd has returned the axes: the second pass may run
CmdRendered == pc = "cmd" /\ (last.fn = "cmd" => last.status = "ok")

SecondPass == CmdRendered /\ nOps < MaxOps /\ nOps' = nOps + 1 /\ pc' = pc

AddVegaLabels ==
    /\ SecondPass
    /\ LET r == add_vega_labels(ax, twins, cfg, ab_to_vega) IN
         /\ ax' = r.ax
         /\ twins' = r.twins
         /\ last' = Call("add_vega_labels", r.status, r.exc, <<>>)
    /\ UNCHANGED <<cluster, cfg, ab_to_vega, fig>>

AddAllModels ==
    /\ SecondPass
    /\ \E order \in Orders, has_key \in BOOLEAN, steal_twins \in BOOLEAN :
         /\ ~has_key => order = <<>>
         /\ twins = <<>> => ~steal_twins
         /\ LET models == ModelsOf(IF has_key THEN cfg.color ELSE "other", order)
                r == add_all_models(fig, ax, twins, steal_twins, cfg, models, order)
            IN /\ ax' = r.ax
               /\ twins' = r.twins
               /\ fig' = r.fig
               /\ last' = Call("add_all_models", r.status, r.exc, order)
    /\ UNCHANGED <<cluster, cfg, ab_to_vega>>

AddRedshift ==
    /\ SecondPass
    /\ \E redshift \in RedshiftInputs : ax' = add_redshift(ax, redshift)
    /\ last' = Call("add_redshift", "ok", "None", <<>>)
    /\ UNCHANGED <<cluster, cfg, ab_to_vega, twins, fig>>

AddFlags ==
    /\ SecondPass
    /\ \E flags \in {0, 3} : ax' = add_flags(ax, flags)
    /\ last' = Call("add_flags", "ok", "None", <<>>)
    /\ UNCHANGED <<cluster, cfg, ab_to_vega, twins, fig>>

Next == Cmd \/ Location

NextOverlay == Cmd \/ AddVegaLabels \/ AddAllModels \/ AddRedshift \/ AddFlags

Spec == Init /\ [][Next]_vars

SpecOverlay == InitOverlay /\ [][NextOverlay]_vars

-----------------------------------------------------------------------------
(* Properties *)

IsPrefix(s, t) == Len(s) <= Len(t) /\ \A i \in 1..Len(s) : s[i] = t[i]

\* Every Source carries the color and the band the configuration names
\* (the data model's invariant on the caller's input).
KeysPresent ==
    \A i \in 1..Len(cluster) : cluster[i].colors.present /\ cluster[i].mags.present

\* The Sources the CMD is to show: near the center, color error below 0.2
ShownIdx ==
    {i \in 1..Len(cluster) :
        /\ cluster[i].near_center
        /\ cluster[i].colors.present
        /\ cluster[i].colors.error < 200}

\* The place of Source i among the shown ones, i.e. the index of its point
Rank(i) == Cardinality({j \in ShownIdx : j <= i})

Drawn(i) == i \in ShownIdx /\ Rank(i) <= Len(ax.points)

IsMember(i) == cluster[i].RS_member = "True"

CmdCalled == pc = "cmd" /\ last.fn = "cmd"
LocationCalled == pc = "location" /\ last.fn = "location"

\* C1: cmd() draws no point for a Source that is not near the center or
\* whose color error is >= 0.2, and exactly one point for every other
\* Source, so the number of points equals the number of Sources with
\* near_center true and color error < 0.2.
C1_PointsAreTheShownSources ==
    (CmdCalled /\ KeysPresent) =>
        /\ Len(ax.points) = Cardinality(ShownIdx)
        /\ \A i \in ShownIdx :
              /\ Drawn(i)
              /\ ax.points[Rank(i)].x = cluster[i].mags.value
              /\ ax.points[Rank(i)].y = cluster[i].colors.value
              /\ ax.points[Rank(i)].yerr = cluster[i].colors.error

\* the display categories of Source i on the CMD
CmdCategories(i) ==
    {k \in {"member", "non-member-candidate", "excluded"} :
        \/ k = "excluded" /\ i \notin ShownIdx
        \/ k = "member" /\ Drawn(i) /\ ax.points[Rank(i)].c = nice_red
        \/ k = "non-member-candidate" /\ Drawn(i) /\ ax.points[Rank(i)].c = "k"}

\* the Sources the spatial classifier is to put into each bucket
RedIdx == {i \in 1..Len(cluster) : IsMember(i)}
DarkIdx == {i \in 1..Len(cluster) : ~IsMember(i) /\ cluster[i].near_center}
LightIdx == {i \in 1..Len(cluster) : ~IsMember(i) /\ ~cluster[i].near_center}

RECURSIVE DecsOf(_, _)
DecsOf(idx, i) ==
    IF i > Len(cluster) THEN <<>>
    ELSE (IF i \in idx THEN <<cluster[i].dec>> ELSE <<>>) \o DecsOf(idx, i + 1)

\* the scatter layer of color c holds exactly the Sources idx
LayerHolds(c, idx) ==
    /\ Cardinality({n \in 1..Len(ax.layers) : ax.layers[n].c = c}) = 1
    /\ \A n \in 1..Len(ax.layers) :
          ax.layers[n].c = c => ax.layers[n].dec = DecsOf(idx, 1)

\* C2: classification is total and exclusive: on the CMD every Source is in
\* exactly one of member, non-member-candidate, excluded; on the sky every
\* Source is in exactly one of the red, dark gray and light gray layers, a
\* member being red even when it is not near the center.
C2_ClassificationTotal ==
    /\ (CmdCalled /\ KeysPresent) =>
          \A i \in 1..Len(cluster) : Cardinality(CmdCategories(i)) = 1
    /\ (LocationCalled /\ cluster # <<>>) =>
          /\ Len(ax.layers) = 3
          /\ LayerHolds(nice_red, RedIdx)
          /\ LayerHolds("0.2", DarkIdx)
          /\ LayerHolds("0.8", LightIdx)

\* C3: in cmd() a shown Source without membership (no RS_member mapping at
\* all, or a mapping without the active color) is drawn black and cmd() does
\* not raise; a point is red only when the flag is present and true.
C3_MissingMembershipIsBlack ==
    (CmdCalled /\ KeysPresent) =>
        /\ last.status = "ok"
        /\ \A i \in ShownIdx :
              /\ Drawn(i)
              /\ ax.points[Rank(i)].c = (IF IsMember(i) THEN nice_red ELSE "k")

HasMissingMembership ==
    \E i \in 1..Len(cluster) : cluster[i].RS_member \in {"Absent", "NoKey"}

\* C4: location() does not raise for a Source without membership (no
\* mapping, or no entry for the color) and puts it into the dark gray layer
\* when it is near the center and into the light gray layer otherwise.
C4_MissingMembershipIsGray ==
    (LocationCalled /\ HasMissingMembership) =>
        /\ last.status = "ok"
        /\ LayerHolds("0.2", DarkIdx)
        /\ LayerHolds("0.8", LightIdx)

\* C5: location() on a cluster without Sources ends in a failure raised to
\* the caller and never sets an aspect ratio.
C5_EmptyClusterFails ==
    (LocationCalled /\ cluster = <<>>) =>
        /\ last.status = "raised"
        /\ ~ax.aspect.set

C5_Witness ==
    LocationCalled /\ cluster = <<>> /\ last.exc = "ValueError" /\ ~ax.aspect.set

\* C6: a call of cmd(), location() or add_all_models() that fails has not
\* changed the surface: nothing the failed call drew or set is on it.
C6_NoPartialSuccess ==
    /\ ((CmdCalled \/ LocationCalled) /\ last.status = "raised") => ax = FreshAx
    /\ (last.fn = "add_all_models" /\ last.status = "raised" /\ nOps = 1) =>
          ax.lines = <<>> /\ ax.markers = <<>> /\ fig.colorbars = <<>>

\* C7: the mirrored magnitude axis runs from x_min + offset[blue_band] to
\* x_max + offset[red_band]; the mirrored color axis is the primary one
\* shifted by offset[blue_band] - offset[red_band] at both ends, so its
\* width is that of the primary range.
C7_VegaLimits ==
    \A i \in 1..Len(twins) :
        LET lims == cfg.plot_lims
            blue == ab_to_vega[cfg.blue_band]
            red == ab_to_vega[cfg.red_band]
        IN /\ twins[i].kind = "twiny" =>
                twins[i].lim = <<lims[1] + blue, lims[2] + red>>
           /\ twins[i].kind = "twinx" =>
                /\ twins[i].lim = <<lims[3] + (blue - red), lims[4] + (blue - red)>>
                /\ twins[i].lim[2] - twins[i].lim[1] = lims[4] - lims[3]

C7_Witness ==
    /\ last.fn = "add_vega_labels" /\ last.status = "ok"
    /\ Len(twins) = 2
    /\ ab_to_vega[cfg.blue_band] # ab_to_vega[cfg.red_band]
    /\ twins[1].lim # <<cfg.plot_lims[3], cfg.plot_lims[4]>>

\* the step is a call of add_all_models that returned
ModelsAdded ==
    /\ nOps' = nOps + 1
    /\ last'.fn = "add_all_models"
    /\ last'.status = "ok"

\* C8: for a non-empty sub-collection of n redshifts add_all_models() adds
\* exactly n lines, each through magnitudes 10 and 30, and n anchor markers,
\* one per redshift; the color scale runs from the least to the greatest
\* redshift; the colorbar's ticks are 0, 0.1, ..., 2.9 whatever the redshifts.
C8_ModelsDrawn ==
    [][ModelsAdded =>
          LET zs == last'.arg
              n == Len(zs)
              m == Len(ax.lines)
              cb == fig'.colorbars[Len(fig'.colorbars)]
          IN /\ n > 0
             /\ Len(ax'.lines) = m + n
             /\ Len(ax'.markers) = Len(ax.markers) + n
             /\ Len(fig'.colorbars) = Len(fig.colorbars) + 1
             /\ \A k \in 1..n :
                   /\ Len(ax'.lines[m + k].pts) = 2
                   /\ ax'.lines[m + k].pts[1].mag = 10000
                   /\ ax'.lines[m + k].pts[2].mag = 30000
                   /\ ax'.markers[Len(ax.markers) + k].mag = ModelAt(zs[k]).mag_point
                   /\ ax'.markers[Len(ax.markers) + k].color = ModelAt(zs[k]).color_point
             /\ \A z \in Range(zs) : cb.vmin <= z /\ z <= cb.vmax
             /\ cb.vmin \in Range(zs) /\ cb.vmax \in Range(zs)
             /\ cb.ticks = [t \in 1..30 |-> t - 1]
    ]_vars

C8_Witness ==
    /\ last.fn = "add_all_models" /\ last.status = "ok"
    /\ Len(last.arg) = 2
    /\ Len(ax.lines) >= 2
    /\ fig.colorbars # <<>>
    /\ fig.colorbars[Len(fig.colorbars)].vmin < fig.colorbars[Len(fig.colorbars)].vmax

AllDecs == {cluster[i].dec : i \in 1..Len(cluster)}

\* C9: the aspect ratio location() sets is 1 / cos of (min + max) / 2 of the
\* declinations of all Sources, whatever their bucket; for declinations
\* {-10, 10} the middle is 0 and the ratio exactly 1.
C9_AspectFromAllDecs ==
    (LocationCalled /\ last.status = "ok") =>
        /\ ax.aspect.set
        /\ ax.aspect.value = (1000 * 1000) \div cos_milli(Abs(Min(AllDecs) + Max(AllDecs)))
        /\ AllDecs = {-10, 10} => ax.aspect.value = 1000

C9_Witness ==
    /\ LocationCalled /\ last.status = "ok"
    /\ AllDecs = {-10, 10}
    /\ ax.aspect.value = 1000
    /\ \E i, j \in 1..Len(cluster) :
          /\ cluster[i].dec = -10 /\ ~IsMember(i) /\ ~cluster[i].near_center
          /\ cluster[j].dec = 10 /\ IsMember(j)

\* C10: once cmd() has rendered, no second-pass call changes the primary
\* limits (they stay cfg["plot_lims"]) or the points cmd() drew; the calls
\* only add lines, markers, text boxes, mirrored axes and colorbars.
C10_SecondPassFrame ==
    [][CmdRendered =>
          /\ ax'.points = ax.points
          /\ ax'.xlim = <<cfg.plot_lims[1], cfg.plot_lims[2]>>
          /\ ax'.ylim = <<cfg.plot_lims[3], cfg.plot_lims[4]>>
          /\ ax'.xlim = ax.xlim /\ ax'.ylim = ax.ylim
          /\ IsPrefix(ax.lines, ax'.lines)
          /\ IsPrefix(ax.markers, ax'.markers)
          /\ IsPrefix(ax.texts, ax'.texts)
          /\ Len(twins) <= Len(twins')
          /\ \A i \in 1..Len(twins) :
                twins'[i].kind = twins[i].kind /\ twins'[i].lim = twins[i].lim
          /\ IsPrefix(fig.colorbars, fig'.colorbars)
    ]_vars

C10_Witness ==
    /\ CmdRendered /\ nOps >= 2
    /\ ax.points # <<>>
    /\ twins # <<>>
    /\ ax.lines # <<>>

====
